---- MODULE Spec2Model ----
(***************************************************************************)
(* A model of frontend/src/views/AccelerateView.vue: the "Accelerate"      *)
(* view of the dashboard.  The view holds a custom-model text input, an    *)
(* Install button, a four-step progress indicator and a data table over    *)
(* the imported model list (modelData).  The state is the view's reactive  *)
(* state, the table widget's own (uncontrolled) filter / sort / page       *)
(* state, the rows the table shows, and the two outside effects the view   *)
(* has: console.log and window.open.                                       *)
(***************************************************************************)
EXTENDS Integers, Sequences, FiniteSets, TLC

(***************************************************************************)
(* Bounds of the model.                                                    *)
(***************************************************************************)
MaxModels == 2      \* every model list of up to this many records is tried
MaxTags == 3        \* tags of a model list, all records together
MaxEffects == 1     \* console entries plus opened windows kept per run

(***************************************************************************)
(* Program constants.                                                      *)
(***************************************************************************)
PageSize == 10      \* reactive({ pageSize: 10 })
CurrentStep == 1    \* <NSteps :current="1">

RemoteOff == FALSE

Remote == TRUE      \* <NDataTable :remote="true">

StepTitles ==
  <<"Start", "Convert to ONNX", "Convert to TensorRT", "Package and cleanup">>

(***************************************************************************)
(* The imported module @/core/models: the tags, their colours and the      *)
(* fields of a Model record.                                               *)
(***************************************************************************)
Tags == {"anime", "photo"}

tagColor == [t \in Tags |-> IF t = "anime" THEN "warning" ELSE "info"]

\* Field values of the record at position k of a list; names and
\* repositories are not in collation order by position.
NamePool == <<"delta", "alpha", "charlie", "bravo">>
RepoPool == <<"org/w", "org/z", "org/x", "org/y">>

Slot(k) == ((k - 1) % Len(NamePool)) + 1

Model(k, tags) ==
  [ name              |-> NamePool[Slot(k)],
    huggingface_id    |-> RepoPool[Slot(k)],
    huggingface_url   |-> "https://huggingface.co/" \o RepoPool[Slot(k)],
    tags              |-> tags,
    example_image_url |-> "https://img/" \o NamePool[Slot(k)] \o ".png" ]

SeqsUpTo(S, n) == UNION { [1..m -> S] : m \in 0..n }

TagLists == SeqsUpTo(Tags, MaxTags)

RECURSIVE TagCount(_)
TagCount(ts) == IF ts = <<>> THEN 0 ELSE Len(Head(ts)) + TagCount(Tail(ts))

\* The model lists tried: every short list, and one list longer than a page.
ShortLists ==
  UNION { { [k \in 1..m |-> Model(k, ts[k])] :
              ts \in { t \in [1..m -> TagLists] : TagCount(t) <= MaxTags } }
          : m \in 0..MaxModels }

LongList ==
  [k \in 1..(PageSize + 1) |->
     Model(k, IF k % 2 = 0 THEN <<"anime", "photo">> ELSE <<"photo">>)]

ModelLists == ShortLists \cup {LongList}

Range(s) == { s[i] : i \in 1..Len(s) }

VARIABLES
  modelData,     \* the imported model list (dataRef is a reactive view of it)
  columns,       \* createColumns2(): here the Tags column's filterOptions
  customModel,   \* ref(""), bound to the input by v-model
  pagination,    \* reactive({ pageSize: 10 })
  current,       \* the step the NSteps indicator shows
  filterState,   \* table widget: the value selected in the Tags filter
  sortState,     \* table widget: the column sorted on and the order
  page,          \* table widget: the current page
  tableRows,     \* the rows the table shows, each rendered by the columns
  console,       \* entries written by console.log
  opened         \* windows opened by window.open

vars == << modelData, columns, customModel, pagination, current, filterState,
           sortState, page, tableRows, console, opened >>

(***************************************************************************)
(* tagsFilterOptions (lines 69-80).  A FilterOption is a JavaScript        *)
(* object: besides its label and value it has an identity (ref), and       *)
(* Array.prototype.includes compares objects by identity.  Each object     *)
(* literal evaluated is a new object, numbered by nextRef.                 *)
(***************************************************************************)
FilterOption(ref, tag) == [ref |-> ref, label |-> tag, value |-> tag]

includes(arr, obj) == \E i \in 1..Len(arr) : arr[i].ref = obj.ref

RECURSIVE forEachTag(_, _, _)
forEachTag(tags, rest, nextRef) ==
  IF rest = <<>> THEN tags
  ELSE LET tag    == Head(rest)
           probe  == FilterOption(nextRef, tag)       \* the literal in includes(...)
           pushed == FilterOption(nextRef + 1, tag)   \* the literal in push(...)
       IN  IF ~ includes(tags, probe)
           THEN forEachTag(Append(tags, pushed), Tail(rest), nextRef + 2)
           ELSE forEachTag(tags, Tail(rest), nextRef + 1)

\* Each tag evaluates at most two object literals, so the next model's
\* literals are numbered past 2 * Len(tags).
RECURSIVE forEachModel(_, _, _)
forEachModel(tags, data, nextRef) ==
  IF data = <<>> THEN tags
  ELSE LET after == forEachTag(tags, Head(data).tags, nextRef)
       IN  forEachModel(after, Tail(data),
                        nextRef + 2 * Len(Head(data).tags))

tagsFilterOptionsFirstTag(data) ==
  forEachModel(<<>>, [i \in 1..Len(data) |->
                        [data[i] EXCEPT !.tags = IF @ = <<>> THEN @ ELSE << Head(@) >>]], 1)

tagsFilterOptions(data) == forEachModel(<<>>, data, 1)

(***************************************************************************)
(* tagsFilter (lines 82-84): Array.prototype.indexOf gives the 0-based     *)
(* position of the first occurrence, or -1; the conditional operator       *)
(* tests the number's truthiness (every number but 0 is truthy).           *)
(***************************************************************************)
indexOf(arr, x) ==
  IF \E i \in 1..Len(arr) : arr[i] = x
  THEN (CHOOSE i \in 1..Len(arr) :
          arr[i] = x /\ \A j \in 1..(i - 1) : arr[j] # x) - 1
  ELSE -1

truthy(n) == n # 0

tagsFilter(value, row) == IF truthy(indexOf(row.tags, value)) THEN FALSE ELSE TRUE

(***************************************************************************)
(* getTagColor (lines 86-88) and getPluginOptions (lines 109-121).         *)
(***************************************************************************)
getTagColorDefault(tag) == "default"

getTagColor(tag) == tagColor[tag]

getPluginOptionsFirstRow(row) ==
  << [ label   |-> "Hugging Face",
       key     |-> "github",
       onClick |-> [open |-> modelData[1].huggingface_url, target |-> "_blank"] ] >>

getPluginOptions(row) ==
  << [ label   |-> "Hugging Face",
       key     |-> "github",
       onClick |-> [open |-> row.huggingface_url, target |-> "_blank"] ] >>

(***************************************************************************)
(* createColumns2 (lines 123-220): the column descriptors and the cell     *)
(* renderers.                                                              *)
(***************************************************************************)
Column(title, key, sorter, filter, filterOptions) ==
  [ title |-> title, key |-> key, sorter |-> sorter, filter |-> filter,
    filterOptions |-> filterOptions ]

createColumns2(data) ==
  << Column("Name", "name", "default", "none", <<>>),
     Column("Repository", "huggingface_id", "default", "none", <<>>),
     Column("Tags", "tags", "none", "tagsFilter", tagsFilterOptions(data)),
     Column("Example", "example", "none", "none", <<>>),
     Column("Acceelerate", "accelerate", "none", "none", <<>>),
     Column("", "menu", "none", "default", <<>>) >>

\* The Tags cell: row.tags.map(tag => h(NTag, {type: getTagColor(tag)}, tag)).
renderTags(row) ==
  [i \in 1..Len(row.tags) |->
     [label |-> row.tags[i], type |-> getTagColor(row.tags[i]), bordered |-> TRUE]]

\* The Accelerate cell: a button whose handler logs "Accelerate", row.name.
renderAccelerate(row) ==
  [label |-> "Accelerate", onClick |-> [log |-> <<"Accelerate", row.name>>]]

\* One table row: the cells of the record at position index of the data.
renderRow(data, index) ==
  LET row == data[index]
  IN  [ index          |-> index,
        name           |-> row.name,
        huggingface_id |-> row.huggingface_id,
        tags           |-> renderTags(row),
        example        |-> [src |-> row.example_image_url, height |-> 64],
        accelerate     |-> renderAccelerate(row),
        menu           |-> getPluginOptions(row) ]

(***************************************************************************)
(* The table widget (NDataTable, lines 34-41) given columns, data,         *)
(* pagination and remote.  It keeps the selected filter value, the sort    *)
(* and the page itself.  Rows are handled as positions in the data.        *)
(***************************************************************************)
NoFilter == "(none)"
NoSort == [columnKey |-> "(none)", order |-> "false"]

Collation ==
  << "alpha", "bravo", "charlie", "delta", "org/w", "org/x", "org/y", "org/z" >>

Rank(str) == CHOOSE i \in 1..Len(Collation) : Collation[i] = str

\* String.prototype.localeCompare: negative, zero or positive.
localeCompare(a, b) ==
  IF Rank(a) < Rank(b) THEN -1 ELSE IF Rank(a) > Rank(b) THEN 1 ELSE 0

\* sorter: "default" compares the two rows' values of the column; a
\* descending order negates the comparison.
compareRows(data, i, j, sort) ==
  LET c == localeCompare(data[i][sort.columnKey], data[j][sort.columnKey])
  IN  IF sort.order = "descend" THEN 0 - c ELSE c

RECURSIVE insertRow(_, _, _, _)
insertRow(data, sorted, i, sort) ==
  IF sorted = <<>> THEN << i >>
  ELSE LET last == sorted[Len(sorted)]
       IN  IF compareRows(data, last, i, sort) <= 0
           THEN Append(sorted, i)
           ELSE Append(insertRow(data, SubSeq(sorted, 1, Len(sorted) - 1), i, sort),
                       last)

RECURSIVE stableSort(_, _, _)
stableSort(data, rows, sort) ==
  IF rows = <<>> THEN <<>>
  ELSE insertRow(data,
                 stableSort(data, SubSeq(rows, 1, Len(rows) - 1), sort),
                 rows[Len(rows)], sort)

RECURSIVE selectRows(_, _, _)
selectRows(data, rows, value) ==
  IF rows = <<>> THEN <<>>
  ELSE LET rest == selectRows(data, Tail(rows), value)
       IN  IF tagsFilter(value, data[Head(rows)])
           THEN << Head(rows) >> \o rest ELSE rest

\* The rows passing the selected filter (all of them when none is selected).
filteredData(data, filter) ==
  LET all == [i \in 1..Len(data) |-> i]
  IN  IF filter = NoFilter THEN all ELSE selectRows(data, all, filter)

\* The filtered rows in the selected order.
sortedData(data, filter, sort) ==
  IF sort.order = "false" THEN filteredData(data, filter)
  ELSE stableSort(data, filteredData(data, filter), sort)

pageCount(data, filter, pageSize) ==
  LET n == Len(filteredData(data, filter))
  IN  IF n = 0 THEN 1 ELSE (n + pageSize - 1) \div pageSize

\* The rows shown: with remote set the widget shows the data as it is
\* given (filtering, sorting and paging are left to whoever supplies the
\* data); otherwise the current page of the sorted, filtered rows.
paginatedData(data, filter, sort, pg, pageSize) ==
  IF Remote THEN [i \in 1..Len(data) |-> i]
  ELSE LET rows  == sortedData(data, filter, sort)
           first == (pg - 1) * pageSize + 1
           last  == IF pg * pageSize < Len(rows) THEN pg * pageSize ELSE Len(rows)
       IN  SubSeq(rows, first, last)

\* The table body: one rendered row per row shown.
render(data, filter, sort, pg, pageSize) ==
  LET rows == paginatedData(data, filter, sort, pg, pageSize)
  IN  [k \in 1..Len(rows) |-> renderRow(data, rows[k])]

(***************************************************************************)
(* The view after setup (lines 90, 222-226).                               *)
(***************************************************************************)
Init ==
  /\ modelData \in ModelLists
  /\ columns = createColumns2(modelData)
  /\ customModel = ""
  /\ pagination = [pageSize |-> PageSize]
  /\ current = CurrentStep
  /\ filterState = NoFilter
  /\ sortState = NoSort
  /\ page = 1
  /\ tableRows = render(modelData, NoFilter, NoSort, 1, PageSize)
  /\ console = <<>>
  /\ opened = <<>>

(***************************************************************************)
(* User actions.                                                           *)
(***************************************************************************)
CustomTexts == {"", "org/custom-model"}

\* Typing in the Custom model input (v-model:value="customModel").
TypeCustomModel(text) ==
  /\ customModel' = text
  /\ UNCHANGED << modelData, columns, pagination, current, filterState,
                  sortState, page, tableRows, console, opened >>

\* Clicking Install: the button has no handler.
ClickInstall ==
  UNCHANGED vars

\* Choosing a value (or none) in the Tags column's filter menu; the widget
\* goes back to the first page.
SelectFilter(value) ==
  /\ filterState' = value
  /\ page' = 1
  /\ tableRows' = render(modelData, value, sortState, 1, pagination.pageSize)
  /\ UNCHANGED << modelData, columns, customModel, pagination, current,
                  sortState, console, opened >>

SelectSortInPlace(key, order) ==
  LET sort == IF order = "false" THEN NoSort
              ELSE [columnKey |-> key, order |-> order]
      rows == sortedData(modelData, NoFilter, sort)
  IN  /\ sortState' = sort
      /\ modelData' = [k \in 1..Len(rows) |-> modelData[rows[k]]]
      /\ tableRows' = render(modelData', filterState, sort, page,
                             pagination.pageSize)
      /\ UNCHANGED << columns, customModel, pagination, current,
                      filterState, page, console, opened >>

\* Clicking the header of a column that has a sorter.
SelectSort(key, order) ==
  LET sort == IF order = "false" THEN NoSort
              ELSE [columnKey |-> key, order |-> order]
  IN  /\ sortState' = sort
      /\ tableRows' = render(modelData, filterState, sort, page,
                             pagination.pageSize)
      /\ UNCHANGED << modelData, columns, customModel, pagination, current,
                      filterState, page, console, opened >>

\* Choosing a page in the table's pager.
SelectPage(pg) ==
  /\ page' = pg
  /\ tableRows' = render(modelData, filterState, sortState, pg,
                         pagination.pageSize)
  /\ UNCHANGED << modelData, columns, customModel, pagination, current,
                  filterState, sortState, console, opened >>

ClickAccelerateAdvances(k) ==
  /\ Len(console) + Len(opened) < MaxEffects
  /\ console' = Append(console, tableRows[k].accelerate.onClick.log)
  /\ current' = current + 1
  /\ UNCHANGED << modelData, columns, customModel, pagination,
                  filterState, sortState, page, tableRows, opened >>

ClickAccelerateClears(k) ==
  /\ Len(console) + Len(opened) < MaxEffects
  /\ console' = Append(console, tableRows[k].accelerate.onClick.log)
  /\ customModel' = ""
  /\ UNCHANGED << modelData, columns, pagination, current,
                  filterState, sortState, page, tableRows, opened >>

\* Clicking the Accelerate button of the k-th row shown: its handler runs.
ClickAccelerate(k) ==
  /\ Len(console) + Len(opened) < MaxEffects
  /\ console' = Append(console, tableRows[k].accelerate.onClick.log)
  /\ UNCHANGED << modelData, columns, customModel, pagination, current,
                  filterState, sortState, page, tableRows, opened >>

\* Clicking option o of the menu of the k-th row shown: its handler runs.
ClickMenuOption(k, o) ==
  /\ Len(console) + Len(opened) < MaxEffects
  /\ opened' = Append(opened, tableRows[k].menu[o].onClick)
  /\ UNCHANGED << modelData, columns, customModel, pagination, current,
                  filterState, sortState, page, tableRows, console >>

Next ==
  \/ \E text \in CustomTexts : TypeCustomModel(text)
  \/ ClickInstall
  \/ \E value \in {NoFilter} \cup { columns[3].filterOptions[i].value :
                                     i \in 1..Len(columns[3].filterOptions) } :
       SelectFilter(value)
  \/ \E c \in 1..Len(columns), order \in {"ascend", "descend", "false"} :
       /\ columns[c].sorter = "default"
       /\ SelectSort(columns[c].key, order)
  \/ \E pg \in 1..pageCount(modelData, filterState, pagination.pageSize) :
       SelectPage(pg)
  \/ \E k \in 1..Len(tableRows) : ClickAccelerate(k)
  \/ \E k \in 1..Len(tableRows) :
       \E o \in 1..Len(tableRows[k].menu) : ClickMenuOption(k, o)

Spec == Init /\ [][Next]_vars

(***************************************************************************)
(* Properties.                                                             *)
(***************************************************************************)
ShownIndex == [k \in 1..Len(tableRows) |-> tableRows[k].index]

TagOptions == columns[3].filterOptions

ModelTags == UNION { Range(modelData[r].tags) : r \in 1..Len(modelData) }

\* C1: with no filter selected the table shows exactly one row per model
\* record: every record of modelData is shown exactly once, and every row
\* shown is a record of modelData (with that record's name and repository),
\* also when modelData holds more records than the page size.
C1_OneRowPerRecord ==
  filterState = NoFilter =>
    /\ Len(tableRows) = Len(modelData)
    /\ \A i \in 1..Len(modelData) :
         Cardinality({ k \in 1..Len(tableRows) : tableRows[k].index = i }) = 1
    /\ \A k \in 1..Len(tableRows) :
         /\ tableRows[k].index \in 1..Len(modelData)
         /\ tableRows[k].name = modelData[tableRows[k].index].name
         /\ tableRows[k].huggingface_id =
              modelData[tableRows[k].index].huggingface_id

\* C1 witness: a list longer than a page, no filter, a sort selected and the
\* second page chosen.
C1_Witness ==
  /\ filterState = NoFilter
  /\ Len(modelData) > pagination.pageSize
  /\ sortState # NoSort
  /\ page = 2
  /\ Len(tableRows) = Len(modelData)

\* C2: for every value offered in the Tags filter and every model record,
\* tagsFilter accepts the record if and only if the value is one of the
\* record's tags, at whatever position.
C2_FilterIsMembership ==
  \A i \in 1..Len(TagOptions), r \in 1..Len(modelData) :
    tagsFilter(TagOptions[i].value, modelData[r])
      <=> TagOptions[i].value \in Range(modelData[r].tags)

\* C3: once a tag filter or a sort on Name or Repository is selected, the
\* rows shown are the records of modelData that pass the filter, in the
\* selected order (lists that fit one page).
C3_ClientSideFilterSort ==
  (/\ filterState # NoFilter \/ sortState # NoSort
   /\ Len(modelData) <= pagination.pageSize)
    => ShownIndex = sortedData(modelData, filterState, sortState)

\* C4: the Tags cell of every row shown holds one tag element per entry of
\* the record's tags, in their order; the element for tag t is labelled t
\* and has the colour tagColor[t].
C4_TagCellColors ==
  \A k \in 1..Len(tableRows) :
    LET row  == modelData[tableRows[k].index]
        cell == tableRows[k].tags
    IN  /\ Len(cell) = Len(row.tags)
        /\ \A i \in 1..Len(cell) :
             /\ cell[i].label = row.tags[i]
             /\ cell[i].type = tagColor[row.tags[i]]

\* C4 witness: a row shown whose cell holds two tags of different colours.
C4_Witness ==
  \E k \in 1..Len(tableRows) :
    /\ Len(tableRows[k].tags) >= 2
    /\ tableRows[k].tags[1].label # tableRows[k].tags[2].label
    /\ tableRows[k].tags[1].type # tableRows[k].tags[2].type

\* C5: no user action creates, changes or deletes a model record: every
\* step leaves modelData as it was.
C5_ModelDataReadOnly == [][modelData' = modelData]_vars

\* C5 witness: text typed, a filter and a sort selected and an effect
\* produced, over a list of at least two records.
C5_Witness ==
  /\ Len(modelData) >= 2
  /\ customModel # ""
  /\ filterState # NoFilter
  /\ sortState # NoSort
  /\ Len(console) + Len(opened) > 0

\* C6: clicking Accelerate on a row writes one console entry carrying that
\* row's name, and a step that writes to the console changes nothing else
\* of the view.
C6_AccelerateOnlyLogs ==
  [][ /\ \A k \in 1..Len(tableRows) :
           ClickAccelerate(k) =>
             console' = Append(console,
                          <<"Accelerate", modelData[tableRows[k].index].name>>)
      /\ console' # console =>
           /\ Len(console') = Len(console) + 1
           /\ UNCHANGED << customModel, columns, modelData, pagination,
                           current, filterState, sortState, page, tableRows,
                           opened >> ]_vars

\* C6 witness: Accelerate clicked on the second row while custom text, a
\* filter and a sort are set.
C6_Witness ==
  /\ Len(console) = 1
  /\ Len(modelData) >= 2
  /\ console[1] = <<"Accelerate", modelData[2].name>>
  /\ customModel # ""
  /\ sortState # NoSort

\* C7: the step indicator has four steps and always shows step 1, Start.
C7_StepIsStart ==
  /\ current = 1
  /\ Len(StepTitles) = 4
  /\ StepTitles[current] = "Start"

\* C7 witness: as many Accelerate clicks as a run keeps, and still step 1.
C7_Witness ==
  /\ Len(console) = MaxEffects
  /\ current = 1

\* C8: the Tags filter offers every tag of every record, each option's
\* label and value are the tag, and every option is a tag of some record.
C8_AllTagsOffered ==
  /\ { TagOptions[i].value : i \in 1..Len(TagOptions) } = ModelTags
  /\ \A i \in 1..Len(TagOptions) : TagOptions[i].label = TagOptions[i].value

\* C8 witness: two records, one of them holding a tag in second position
\* that no record holds in first position.
C8_Witness ==
  /\ Len(modelData) >= 2
  /\ \E r \in 1..Len(modelData) :
       /\ Len(modelData[r].tags) >= 2
       /\ \A q \in 1..Len(modelData) :
            modelData[q].tags # <<>> => modelData[q].tags[1] # modelData[r].tags[2]
  /\ Len(TagOptions) >= 2

\* C9: each distinct tag occurs exactly once among the Tags filter options.
C9_OptionsDistinct ==
  \A i, j \in 1..Len(TagOptions) :
    i # j => TagOptions[i].value # TagOptions[j].value

\* C10: every row shown carries its own record's actions: its menu is the
\* single option Hugging Face opening the record's huggingface_url in a new
\* tab, its Accelerate button logs the record's name, and what a click
\* opened is the URL of the row clicked.
C10_RowActionsBound ==
  /\ \A k \in 1..Len(tableRows) :
       LET row == modelData[tableRows[k].index]
       IN  /\ Len(tableRows[k].menu) = 1
           /\ tableRows[k].menu[1].label = "Hugging Face"
           /\ tableRows[k].menu[1].onClick =
                [open |-> row.huggingface_url, target |-> "_blank"]
           /\ tableRows[k].accelerate.onClick.log = <<"Accelerate", row.name>>
  /\ \A e \in 1..Len(opened) :
       \E r \in 1..Len(modelData) :
         opened[e] = [open |-> modelData[r].huggingface_url, target |-> "_blank"]

\* C10 witness: the menu option of the second row was clicked and opened the
\* second record's URL, which is not the first record's.
C10_Witness ==
  /\ Len(modelData) >= 2
  /\ Len(opened) = 1
  /\ opened[1].open = modelData[2].huggingface_url
  /\ modelData[1].huggingface_url # modelData[2].huggingface_url

====
